---- MODULE Spec2Model ----
(***************************************************************************)
(* Exact rational arithmetic (types/number.rs) and single-variable         *)
(* polynomials built on it (types/mod.rs): canonical form, evaluation and  *)
(* rational-root search.                                                   *)
(*                                                                         *)
(* Machine integers: the source uses u32 magnitudes and i32 signed         *)
(* intermediates.  TLC's integers are themselves 32 bits wide, so 2^32 is  *)
(* not a value it can hold; the machine word is therefore modelled with    *)
(* WordBits bits (u32 = 0 .. 2^WordBits - 1, i32 = two's complement of the *)
(* same width).  Every wrap, cast and overflow check of the source is kept *)
(* at that width.                                                          *)
(***************************************************************************)
EXTENDS Integers, Sequences, FiniteSets, TLC

VARIABLES
    overflow_checks, \* build profile: TRUE = arithmetic overflow panics (debug),
                     \*                FALSE = arithmetic overflow wraps (release)
    op,              \* Number harness: the operation applied ("none" before)
    a, b,            \* Number harness: operands (self, rhs)
    k,               \* Number harness: scalar argument (u32 factor, i32 degree)
    triple,          \* Number harness: raw (numerator, denominator, sign) given to Number::new
    res,             \* Number harness: what the operation returned (for +=, stored)
    raw,             \* polynomial: the raw term list given to PolynomialFunction::new
    built,           \* polynomial: "no", "yes", or "panic" when construction panicked
    terms,           \* polynomial: PolynomialFunction.terms
    q_op,            \* polynomial: last query ("none", "evaluate", "roots")
    q_x,             \* polynomial: the query's argument
    q_res            \* polynomial: the query's result

vars == <<overflow_checks, op, a, b, k, triple, res, raw, built, terms, q_op, q_x, q_res>>
numVars == <<op, a, b, k, triple, res>>
polyVars == <<raw, built, terms, q_op, q_x, q_res>>

---------------------------------------------------------------------------
(* Bounds of the model *)

WordBits == 12     \* width of the modelled machine word
MaxNum == 4        \* small operand numerators are 0 .. MaxNum
MaxDen == 3        \* operand denominators are 1 .. MaxDen (0 .. MaxDen for Number::new)
MaxPow == 3        \* pow degrees are -MaxPow .. MaxPow
MaxFactor == 3     \* u32 scalars are 0 .. MaxFactor
MaxTerms == 2      \* raw term lists have at most MaxTerms terms
MaxCoef == 3       \* raw coefficient numerators are 0 .. MaxCoef
MaxDegree == 2     \* raw degrees are -1 .. MaxDegree
MaxPoint == 2      \* evaluation points are -MaxPoint .. MaxPoint

---------------------------------------------------------------------------
(* Machine integers *)

RECURSIVE Pow2(_)
Pow2(n) == IF n = 0 THEN 1 ELSE 2 * Pow2(n - 1)

U32Modulus == Pow2(WordBits)
U32Max == U32Modulus - 1
I32Max == Pow2(WordBits - 1) - 1
I32Min == 0 - Pow2(WordBits - 1)

WrapU32(v) == v % U32Modulus
WrapI32(v) == LET m == v % U32Modulus IN IF m > I32Max THEN m - U32Modulus ELSE m
FitsU32(v) == 0 <= v /\ v <= U32Max
FitsI32(v) == I32Min <= v /\ v <= I32Max

\* `x as i32` on a u32 and `x as u32` on an i32: reinterpretation, never a panic
AsI32(u) == WrapI32(u)
AsU32(i) == WrapU32(i)

Abs(v) == IF v < 0 THEN 0 - v ELSE v

\* Rust's % on i32 truncates toward zero: the remainder has the dividend's sign
RustRem(x, y) == IF x >= 0 THEN x % y ELSE 0 - ((0 - x) % y)

---------------------------------------------------------------------------
(* types/number.rs *)

\* a panic unwinds out of the operation: no value is returned
Panic == [panic |-> TRUE]
IsPanic(v) == "panic" \in DOMAIN v

\* struct Number { numerator: u32, denominator: u32, positive: bool }
Num(n, d, s) == [numerator |-> n, denominator |-> d, positive |-> s]
IsNumber(v) == DOMAIN v = {"numerator", "denominator", "positive"}

RECURSIVE gcd(_, _)
gcd(x, y) == IF y = 0 THEN x ELSE gcd(y, x % y)

\* mutation: simplify that divides nothing
Number_simplify_noop(self) == self

\* Number::simplify; the integer division by fac panics when fac = 0, in every build
Number_simplify(self) ==
    LET fac == gcd(self.numerator, self.denominator) IN
    IF fac = 0 THEN Panic
    ELSE Num(self.numerator \div fac, self.denominator \div fac, self.positive)

\* Number::new
Number_new(numerator, denominator, sign) ==
    Number_simplify(Num(numerator, denominator, sign))

not_zero(self) == self.numerator # 0

is_integer(self) == self.denominator = 1

\* a checked u32 product: panics when overflow checks are on, wraps otherwise
MulOverflows(x, y) == x * y > U32Max

\* -(x as i32): negating i32::MIN overflows
NegI32(i) == WrapI32(0 - i)

\* Number::factors: every x in 1 ..= numerator / 2 dividing the numerator, in
\* increasing order, each followed by its negation; then the numerator itself
\* and its negation
factors(self) ==
    LET n == self.numerator
        D == {x \in 1..(n \div 2) : n % x = 0}
        nth(i) == CHOOSE x \in D : Cardinality({y \in D : y < x}) = i - 1
        len == 2 * Cardinality(D) + 2
    IN [i \in 1..len |->
           IF i = len - 1 THEN AsI32(n)
           ELSE IF i = len THEN NegI32(AsI32(n))
           ELSE IF i % 2 = 1 THEN AsI32(nth((i + 1) \div 2))
           ELSE NegI32(AsI32(nth(i \div 2)))]

\* the loop of Number::pow: `degree` wrapping/checked multiplications from 1
RECURSIVE PowLoop(_, _)
PowLoop(base, degree) ==
    IF degree <= 0 THEN [val |-> 1, ovf |-> FALSE]
    ELSE LET p == PowLoop(base, degree - 1) IN
         [val |-> WrapU32(p.val * base), ovf |-> p.ovf \/ MulOverflows(p.val, base)]

\* mutation: the result of pow is always positive
pow_unsigned(self, degree, oc) ==
    IF IsPanic(self) THEN Panic ELSE
    LET n == PowLoop(self.numerator, degree)
        d == PowLoop(self.denominator, degree)
    IN IF oc /\ (n.ovf \/ d.ovf) THEN Panic ELSE Number_new(n.val, d.val, TRUE)

\* Number::pow
pow(self, degree, oc) ==
    IF IsPanic(self) THEN Panic ELSE
    LET n == PowLoop(self.numerator, degree)
        d == PowLoop(self.denominator, degree)
    IN IF oc /\ (n.ovf \/ d.ovf) THEN Panic
       ELSE Number_new(n.val, d.val,
                       IF RustRem(degree, 2) = 0 THEN TRUE ELSE self.positive)

\* impl Add<Number> for Number
add(self, rhs, oc) ==
    IF IsPanic(self) \/ IsPanic(rhs) THEN Panic ELSE
    LET lhs_factor == IF self.positive THEN 1 ELSE -1
        rhs_factor == IF rhs.positive THEN 1 ELSE -1
        l == AsI32(WrapU32(self.numerator * rhs.denominator)) * lhs_factor
        r == AsI32(WrapU32(rhs.numerator * self.denominator)) * rhs_factor
        numerator == WrapI32(WrapI32(l) + WrapI32(r))
        denom == WrapU32(self.denominator * rhs.denominator)
        ovf == \/ MulOverflows(self.numerator, rhs.denominator)
               \/ MulOverflows(rhs.numerator, self.denominator)
               \/ MulOverflows(self.denominator, rhs.denominator)
               \/ ~FitsI32(l) \/ ~FitsI32(r)
               \/ ~FitsI32(WrapI32(l) + WrapI32(r))
               \/ ~FitsI32(Abs(numerator))
    IN IF oc /\ ovf THEN Panic
       ELSE Number_new(AsU32(WrapI32(Abs(numerator))), denom, numerator > 0)

\* impl AddAssign for Number: the value stored into *self
add_assign(self, rhs, oc) ==
    IF IsPanic(self) \/ IsPanic(rhs) THEN Panic ELSE
    LET lhs_factor == IF self.positive THEN 1 ELSE -1
        rhs_factor == IF rhs.positive THEN 1 ELSE -1
        l == AsI32(WrapU32(self.numerator * rhs.denominator)) * lhs_factor
        r == AsI32(WrapU32(rhs.numerator * self.denominator)) * rhs_factor
        numerator == WrapI32(WrapI32(l) + WrapI32(r))
        denom == WrapU32(self.denominator * rhs.denominator)
        ovf == \/ MulOverflows(self.numerator, rhs.denominator)
               \/ MulOverflows(rhs.numerator, self.denominator)
               \/ MulOverflows(self.denominator, rhs.denominator)
               \/ ~FitsI32(l) \/ ~FitsI32(r)
               \/ ~FitsI32(WrapI32(l) + WrapI32(r))
               \/ ~FitsI32(Abs(numerator))
        number == Number_new(AsU32(WrapI32(Abs(numerator))), denom, numerator > 0)
    IN IF oc /\ ovf THEN Panic ELSE number

\* impl Mul<u32> for Number
mul_u32(self, rhs, oc) ==
    IF IsPanic(self) THEN Panic
    ELSE IF oc /\ MulOverflows(self.numerator, rhs) THEN Panic
    ELSE Number_new(WrapU32(self.numerator * rhs), self.denominator, self.positive)

\* impl Div<u32> for Number
div_u32(self, rhs, oc) ==
    IF IsPanic(self) THEN Panic
    ELSE IF oc /\ MulOverflows(self.denominator, rhs) THEN Panic
    ELSE Number_new(self.numerator, WrapU32(self.denominator * rhs), self.positive)

\* impl Mul<Number> for Number
mul(self, rhs, oc) ==
    IF IsPanic(self) \/ IsPanic(rhs) THEN Panic ELSE
    LET sign == IF self.positive THEN rhs.positive ELSE ~rhs.positive IN
    IF oc /\ (\/ MulOverflows(self.numerator, rhs.numerator)
              \/ MulOverflows(self.denominator, rhs.denominator))
    THEN Panic
    ELSE Number_new(WrapU32(self.numerator * rhs.numerator),
                    WrapU32(self.denominator * rhs.denominator), sign)

\* impl Div<Number> for Number; `^` on bool is exclusive or
div(self, rhs, oc) ==
    IF IsPanic(self) \/ IsPanic(rhs) THEN Panic ELSE
    IF oc /\ (\/ MulOverflows(self.numerator, rhs.denominator)
              \/ MulOverflows(self.denominator, rhs.numerator))
    THEN Panic
    ELSE Number_new(WrapU32(self.numerator * rhs.denominator),
                    WrapU32(self.denominator * rhs.numerator),
                    self.positive # rhs.positive)

\* the two u32 products every comparison forms
CrossOverflows(self, other) ==
    \/ MulOverflows(self.numerator, other.denominator)
    \/ MulOverflows(other.numerator, self.denominator)

\* impl PartialEq for Number (the comparison itself, on the wrapped products)
eq(self, other) ==
    WrapU32(self.numerator * other.denominator) = WrapU32(other.numerator * self.denominator)

Ordering(x, y) == IF x < y THEN "Less" ELSE IF x = y THEN "Equal" ELSE "Greater"

\* impl Ord for Number
cmp(self, other) ==
    Ordering(WrapU32(self.numerator * other.denominator),
             WrapU32(other.numerator * self.denominator))

\* impl PartialOrd for Number: Some(ordering), never None
partial_cmp(self, other) ==
    Ordering(WrapU32(self.numerator * other.denominator),
             WrapU32(other.numerator * self.denominator))

\* impl From<u32> for Number
from_u32(value) == Number_new(value, 1, TRUE)

\* f64 values are restricted to integer-valued floats, held as integers (exact
\* below 2^53).  impl From<f64>: for such a value the scaling loop stops at
\* i = 0, so the result is |value| / 10^0 with the float's sign.
from_f64(value) == Number_new(Abs(value), 1, value >= 0)

\* impl Into<f64> for Number: numerator as f64 / denominator as f64; the sign
\* flag is not read.  Integral for the integer-valued cases modelled.
into_f64(self) == self.numerator \div self.denominator

\* impl Add<f64> for Number
add_f64(self, rhs, oc) ==
    LET sum == add(self, from_f64(rhs), oc) IN
    IF IsPanic(sum) THEN Panic ELSE [f64 |-> into_f64(sum)]

---------------------------------------------------------------------------
(* types/mod.rs *)

\* struct Term { coefficient: Number, degree: i32 }
Term_new(coefficient, degree) == [coefficient |-> coefficient, degree |-> degree]

\* Term::evaluate
Term_evaluate(self, x, oc) ==
    LET t == pow(x, self.degree, oc)
        out == mul(t, self.coefficient, oc)
    IN out

\* the HashMap<i32, Term> of PolynomialFunction::simplify after the first i
\* raw terms: degree -> coefficient (a Panic coefficient: the loop panicked)
RECURSIVE GroupByDegree(_, _, _)
GroupByDegree(ts, i, oc) ==
    IF i = 0 THEN <<>>
    ELSE LET map == GroupByDegree(ts, i - 1, oc)
             t == ts[i]
         IN IF t.degree \in DOMAIN map
            THEN [map EXCEPT ![t.degree] = add_assign(@, t.coefficient, oc)]
            ELSE [d \in DOMAIN map \cup {t.degree} |->
                     IF d = t.degree THEN Number_simplify(t.coefficient) ELSE map[d]]

MaxOf(S) == CHOOSE m \in S : \A e \in S : e <= m

\* sort_by(|x, y| y.degree.cmp(&x.degree)) over terms of distinct degrees
RECURSIVE SortDescending(_, _)
SortDescending(map, D) ==
    IF D = {} THEN <<>>
    ELSE LET d == MaxOf(D) IN
         <<Term_new(map[d], d)>> \o SortDescending(map, D \ {d})

\* does an addition inside PolynomialFunction::simplify panic?
simplify_panics(ts, oc) ==
    LET map == GroupByDegree(ts, Len(ts), oc) IN
    \E d \in DOMAIN map : IsPanic(map[d])

\* mutation: canonicalization that keeps zero coefficients
Poly_simplify_keep_zero(ts, oc) ==
    LET map == GroupByDegree(ts, Len(ts), oc) IN
    SortDescending(map, DOMAIN map)

\* PolynomialFunction::simplify: the new value of self.terms
Poly_simplify(ts, oc) ==
    LET map == GroupByDegree(ts, Len(ts), oc) IN
    SortDescending(map, {d \in DOMAIN map : not_zero(map[d])})

\* PolynomialFunction::new
Poly_new(ts, oc) == Poly_simplify(ts, oc)

\* PolynomialFunction::evaluate(x: f64) -> f64: the fold over the first i terms
RECURSIVE EvaluateFold(_, _, _, _)
EvaluateFold(ts, i, x, oc) ==
    IF i = 0 THEN [f64 |-> 0]
    ELSE LET acc == EvaluateFold(ts, i - 1, x, oc) IN
         IF IsPanic(acc) THEN Panic
         ELSE add_f64(Term_evaluate(ts[i], from_f64(x), oc), acc.f64, oc)

Poly_evaluate(ts, x, oc) == EvaluateFold(ts, Len(ts), x, oc)

\* PolynomialFunction::_evaluate(x: Number) -> Number: the fold over the first i terms
RECURSIVE ExactFold(_, _, _, _)
ExactFold(ts, i, x, oc) ==
    IF i = 0 THEN from_u32(0)
    ELSE add(Term_evaluate(ts[i], x, oc), ExactFold(ts, i - 1, x, oc), oc)

_evaluate(ts, x, oc) == ExactFold(ts, Len(ts), x, oc)

\* roots(): constant_term
constant_term(ts) ==
    IF Len(ts) = 0 THEN from_u32(1)
    ELSE LET x == ts[Len(ts)] IN
         IF x.degree = 0 THEN x.coefficient ELSE from_u32(1)

\* roots(): leading_coefficient
leading_coefficient(ts) ==
    IF Len(ts) = 0 THEN from_u32(1)
    ELSE LET x == ts[1] IN
         IF x.degree = 0 THEN x.coefficient ELSE from_u32(1)

\* roots(): divisor, the product of the denominators of the non-integral
\* coefficients among the first i terms
RECURSIVE DivisorLoop(_, _)
DivisorLoop(ts, i) ==
    IF i = 0 THEN [val |-> 1, ovf |-> FALSE]
    ELSE LET p == DivisorLoop(ts, i - 1)
             num == ts[i].coefficient
         IN IF ~is_integer(num)
            THEN [val |-> WrapU32(p.val * num.denominator),
                  ovf |-> p.ovf \/ MulOverflows(p.val, num.denominator)]
            ELSE p

\* roots(): potential_roots, in iteration order: for each factor c of the scaled
\* constant term, for each factor l of the scaled leading coefficient
potential_roots(ts, divisor, oc) ==
    LET lc_factors == factors(mul_u32(leading_coefficient(ts), divisor, oc))
        c_factors == factors(mul_u32(constant_term(ts), divisor, oc))
    IN [j \in 1..(Len(c_factors) * Len(lc_factors)) |->
           LET c == c_factors[((j - 1) \div Len(lc_factors)) + 1]
               l == lc_factors[((j - 1) % Len(lc_factors)) + 1]
           IN Number_new(AsU32(WrapI32(Abs(c))), AsU32(WrapI32(Abs(l))),
                         (c > 0) = (l > 0))]

\* HashSet<Number>::insert.  Number derives Hash over all three fields but its
\* PartialEq ignores `positive`: for a value equal to a stored one under == but
\* with another sign flag the hashes differ, and whether the stored one is
\* found depends on the table's layout and the hasher's random keys.  Both
\* outcomes are kept.
InsertOutcomes(S, x) ==
    IF x \in S THEN {S}
    ELSE IF \E y \in S : eq(y, x) THEN {S, S \cup {x}}
    ELSE {S \cup {x}}

\* roots(): the sets the HashSet can hold after the loop has inserted the
\* candidates at the positions I (those that evaluate to zero), in order
RECURSIVE RootSets(_, _)
RootSets(cands, I) ==
    IF I = {} THEN {{}}
    ELSE LET j == MaxOf(I)
             prev == RootSets(cands, I \ {j})
         IN UNION {InsertOutcomes(S, cands[j]) : S \in prev}

\* does the candidate enumeration of roots() overflow (a panic when overflow
\* checks are on)?  The divisor product, the two scalings by it, and the
\* negation / abs of a factor equal to i32::MIN.
EnumerationOverflows(ts) ==
    LET dv == DivisorLoop(ts, Len(ts))
        lc == leading_coefficient(ts)
        ct == constant_term(ts)
    IN \/ dv.ovf
       \/ MulOverflows(lc.numerator, dv.val)
       \/ MulOverflows(ct.numerator, dv.val)
       \/ \E n \in {WrapU32(lc.numerator * dv.val), WrapU32(ct.numerator * dv.val)} :
              \E x \in 1..n : n % x = 0 /\ AsI32(x) = I32Min

\* PolynomialFunction::roots: every Vec it can return, as a set of Numbers
roots(ts, oc) ==
    IF oc /\ EnumerationOverflows(ts) THEN {Panic}
    ELSE LET dv == DivisorLoop(ts, Len(ts))
             cands == potential_roots(ts, dv.val, oc)
             value == [j \in DOMAIN cands |-> _evaluate(ts, cands[j], oc)]
         IN IF \E j \in DOMAIN cands : IsPanic(value[j]) THEN {Panic}
            ELSE {[roots |-> S] :
                     S \in RootSets(cands, {j \in DOMAIN cands : value[j].numerator = 0})}

---------------------------------------------------------------------------
(* The Number harness: two operands, one operation applied to them *)

None == [none |-> TRUE]

\* numerators of the operands: small ones and the ones around the sign bit and
\* the top of the u32 range
NumeratorInputs == (0..MaxNum) \cup {I32Max, I32Max + 1, I32Max + 2, U32Max}

Operands == {Number_new(n, d, s) : n \in NumeratorInputs, d \in 1..MaxDen, s \in BOOLEAN}

PolyIdle ==
    /\ raw = <<>> /\ built = "no" /\ terms = <<>>
    /\ q_op = "none" /\ q_x = 0 /\ q_res = None

InitNumber ==
    /\ overflow_checks \in BOOLEAN
    /\ op = "none" /\ k = 0 /\ triple = Num(0, 1, TRUE) /\ res = None
    /\ a \in Operands /\ b \in Operands
    /\ PolyIdle

Returns(name, value) ==
    /\ op = "none"
    /\ op' = name
    /\ res' = value
    /\ UNCHANGED <<overflow_checks, polyVars>>

New ==
    \E n \in NumeratorInputs, d \in 0..MaxDen, s \in BOOLEAN :
        /\ Returns("new", Number_new(n, d, s))
        /\ triple' = Num(n, d, s)
        /\ UNCHANGED <<a, b, k>>

Add ==
    /\ Returns("add", add(a, b, overflow_checks))
    /\ UNCHANGED <<a, b, k, triple>>

\* a += b; res is *self after the call (a stays the operand as passed)
AddAssign ==
    /\ Returns("add_assign", add_assign(a, b, overflow_checks))
    /\ UNCHANGED <<a, b, k, triple>>

MulU32 ==
    \E rhs \in 0..MaxFactor :
        /\ Returns("mul_u32", mul_u32(a, rhs, overflow_checks))
        /\ k' = rhs
        /\ UNCHANGED <<a, b, triple>>

DivU32 ==
    \E rhs \in 0..MaxFactor :
        /\ Returns("div_u32", div_u32(a, rhs, overflow_checks))
        /\ k' = rhs
        /\ UNCHANGED <<a, b, triple>>

Mul ==
    /\ Returns("mul", mul(a, b, overflow_checks))
    /\ UNCHANGED <<a, b, k, triple>>

Div ==
    /\ Returns("div", div(a, b, overflow_checks))
    /\ UNCHANGED <<a, b, k, triple>>

Pow ==
    \E degree \in (0 - MaxPow)..MaxPow :
        /\ Returns("pow", pow(a, degree, overflow_checks))
        /\ k' = degree
        /\ UNCHANGED <<a, b, triple>>

\* Term::new(b, degree).evaluate(a)
TermEvaluate ==
    \E degree \in (0 - MaxPow)..MaxPow :
        /\ Returns("term_evaluate", Term_evaluate(Term_new(b, degree), a, overflow_checks))
        /\ k' = degree
        /\ UNCHANGED <<a, b, triple>>

Eq ==
    /\ Returns("eq", IF overflow_checks /\ CrossOverflows(a, b) THEN Panic
                     ELSE [bool |-> eq(a, b)])
    /\ UNCHANGED <<a, b, k, triple>>

PartialCmp ==
    /\ Returns("partial_cmp", IF overflow_checks /\ CrossOverflows(a, b) THEN Panic
                              ELSE [ord |-> partial_cmp(a, b)])
    /\ UNCHANGED <<a, b, k, triple>>

Cmp ==
    /\ Returns("cmp", IF overflow_checks /\ CrossOverflows(a, b) THEN Panic
                      ELSE [ord |-> cmp(a, b)])
    /\ UNCHANGED <<a, b, k, triple>>

NextNumber ==
    \/ New \/ Add \/ AddAssign \/ MulU32 \/ DivU32 \/ Mul \/ Div
    \/ Pow \/ TermEvaluate \/ Eq \/ PartialCmp \/ Cmp

SpecNumber == InitNumber /\ [][NextNumber]_vars

---------------------------------------------------------------------------
(* The polynomial harness: a raw term list, PolynomialFunction::new on it,
   then one query on the polynomial.  It runs the build with overflow checks
   (the profile of the repository's tests): an overflow shows as a panic, and
   where nothing overflows the other build computes the same values. *)

NumberIdle ==
    /\ op = "none" /\ k = 0 /\ triple = Num(0, 1, TRUE) /\ res = None
    /\ a = from_u32(0) /\ b = from_u32(0)

\* raw coefficients: integers and halves of either sign
CoefDenominators == {1, 2}

Coefficients ==
    {Number_new(n, d, s) : n \in 0..MaxCoef, d \in CoefDenominators, s \in BOOLEAN}

Degrees == (0 - 1)..MaxDegree

RawTerms == {Term_new(c, d) : c \in Coefficients, d \in Degrees}

RawLists == UNION {[1..n -> RawTerms] : n \in 0..MaxTerms}

Points == (0 - MaxPoint)..MaxPoint

InitPoly ==
    /\ overflow_checks = TRUE
    /\ NumberIdle
    /\ raw \in RawLists
    /\ built = "no" /\ terms = <<>>
    /\ q_op = "none" /\ q_x = 0 /\ q_res = None

\* let func = PolynomialFunction::new(raw)
PolyNew ==
    /\ built = "no"
    /\ IF simplify_panics(raw, overflow_checks)
       THEN built' = "panic" /\ terms' = <<>>
       ELSE built' = "yes" /\ terms' = Poly_new(raw, overflow_checks)
    /\ UNCHANGED <<overflow_checks, numVars, raw, q_op, q_x, q_res>>

\* func.evaluate(x as f64), for integer coefficients (the floats stay integral)
Evaluate ==
    /\ built = "yes" /\ q_op = "none"
    /\ \A i \in 1..Len(terms) : is_integer(terms[i].coefficient)
    /\ \E x \in Points :
        /\ q_op' = "evaluate"
        /\ q_x' = x
        /\ q_res' = Poly_evaluate(terms, x, overflow_checks)
    /\ UNCHANGED <<overflow_checks, numVars, raw, built, terms>>

\* func.roots()
Roots ==
    /\ built = "yes" /\ q_op = "none"
    /\ q_op' = "roots"
    /\ q_res' \in roots(terms, overflow_checks)
    /\ UNCHANGED <<overflow_checks, numVars, raw, built, terms, q_x>>

NextPoly == PolyNew \/ Evaluate

SpecPoly == InitPoly /\ [][NextPoly]_vars

\* the root search is run on term lists of distinct degrees, highest first,
\* with non-zero coefficients: the lists construction leaves unchanged
RootInputs ==
    UNION {{SortDescending(m, D) : m \in [D -> {c \in Coefficients : not_zero(c)}]} :
              D \in {E \in SUBSET Degrees : Cardinality(E) <= MaxTerms}}

InitRoots ==
    /\ overflow_checks = TRUE
    /\ NumberIdle
    /\ raw \in RootInputs
    /\ built = "no" /\ terms = <<>>
    /\ q_op = "none" /\ q_x = 0 /\ q_res = None

NextRoots == PolyNew \/ Roots

SpecRoots == InitRoots /\ [][NextRoots]_vars

---------------------------------------------------------------------------
(* Exact integer arithmetic the properties are stated in *)

Sgn(x) == IF x.positive THEN 1 ELSE -1

\* the signed numerator of a Number
SignedNumerator(x) == Sgn(x) * x.numerator

\* two Numbers (denominators >= 1) denote the same rational
SameValue(x, y) == SignedNumerator(x) * y.denominator = SignedNumerator(y) * x.denominator

ValueOrdering(x, y) ==
    Ordering(SignedNumerator(x) * y.denominator, SignedNumerator(y) * x.denominator)

Coprime(n, d) == \A f \in 2..d : ~(n % f = 0 /\ d % f = 0)

RECURSIVE IntPow(_, _)
IntPow(x, e) == IF e <= 0 THEN 1 ELSE x * IntPow(x, e - 1)

\* product of the coefficient denominators of the terms of ts at the positions I
RECURSIVE DenProduct(_, _)
DenProduct(ts, I) ==
    IF I = {} THEN 1
    ELSE LET i == MaxOf(I) IN ts[i].coefficient.denominator * DenProduct(ts, I \ {i})

\* numerator, over DenProduct(ts, I), of the signed sum of the coefficients at I
RECURSIVE SumNumerator(_, _, _)
SumNumerator(ts, I, J) ==
    IF J = {} THEN 0
    ELSE LET i == MaxOf(J) IN
         SignedNumerator(ts[i].coefficient) * DenProduct(ts, I \ {i})
         + SumNumerator(ts, I, J \ {i})

AtDegree(ts, d) == {i \in 1..Len(ts) : ts[i].degree = d}

\* P(r) = 0 for the polynomial ts (degrees >= 0) and the rational r, cleared of
\* denominators: sum of c_i * r.num^deg_i * r.den^(M - deg_i) * (prod of the other
\* coefficient denominators), M the highest degree
RECURSIVE RootSum(_, _, _, _)
RootSum(ts, r, M, J) ==
    IF J = {} THEN 0
    ELSE LET i == MaxOf(J) IN
         SignedNumerator(ts[i].coefficient)
           * IntPow(SignedNumerator(r), ts[i].degree)
           * IntPow(r.denominator, M - ts[i].degree)
           * DenProduct(ts, (1..Len(ts)) \ {i})
         + RootSum(ts, r, M, J \ {i})

IsExactRoot(ts, r) ==
    RootSum(ts, r, IF Len(ts) = 0 THEN 0 ELSE ts[1].degree, 1..Len(ts)) = 0

\* the integer value of an integer-coefficient polynomial at the integer x
RECURSIVE IntValue(_, _, _)
IntValue(ts, x, i) ==
    IF i = 0 THEN 0
    ELSE SignedNumerator(ts[i].coefficient) * IntPow(x, ts[i].degree)
         + IntValue(ts, x, i - 1)

\* a + b computed without loss: no product overflows u32, no cast to i32
\* changes a cross product, and the signed sum fits in i32
AddLossless(x, y) ==
    /\ x.numerator * y.denominator <= I32Max
    /\ y.numerator * x.denominator <= I32Max
    /\ x.denominator * y.denominator <= U32Max
    /\ FitsI32(SignedNumerator(x) * y.denominator + SignedNumerator(y) * x.denominator)

\* Term::evaluate computed without overflow
TermLossless(t, x) ==
    LET n == PowLoop(x.numerator, t.degree)
        d == PowLoop(x.denominator, t.degree)
    IN /\ ~n.ovf /\ ~d.ovf
       /\ ~MulOverflows(n.val, t.coefficient.numerator)
       /\ ~MulOverflows(d.val, t.coefficient.denominator)

\* _evaluate(x) over the first i terms computed without overflow
RECURSIVE EvaluateLossless(_, _, _)
EvaluateLossless(ts, i, x) ==
    IF i = 0 THEN TRUE
    ELSE /\ EvaluateLossless(ts, i - 1, x)
         /\ TermLossless(ts[i], x)
         /\ AddLossless(Term_evaluate(ts[i], x, FALSE), ExactFold(ts, i - 1, x, FALSE))

\* the raw coefficients are small enough for every sum of them to be formed
\* without overflow: (sum of the numerators) * (product of the denominators)
\* fits in i32
RECURSIVE NumeratorTotal(_, _)
NumeratorTotal(ts, i) ==
    IF i = 0 THEN 0 ELSE ts[i].coefficient.numerator + NumeratorTotal(ts, i - 1)

RawFits(ts) == NumeratorTotal(ts, Len(ts)) * DenProduct(ts, 1..Len(ts)) <= I32Max

NonNegativeDegrees(ts) == \A i \in 1..Len(ts) : ts[i].degree >= 0

---------------------------------------------------------------------------
(* Properties *)

\* C1: PolynomialFunction::new leaves the terms in canonical form: degrees
\* strictly descending, no zero coefficient, and a term of degree d is present
\* exactly when the signed sum of the raw coefficients of degree d is non-zero,
\* its coefficient being that sum (when nothing overflowed).
C1_CanonicalForm ==
    (built = "yes" /\ RawFits(raw)) =>
        /\ \A i \in 1..(Len(terms) - 1) : terms[i].degree > terms[i + 1].degree
        /\ \A i \in 1..Len(terms) :
              /\ terms[i].coefficient.numerator # 0
              /\ terms[i].coefficient.denominator >= 1
              /\ AtDegree(raw, terms[i].degree) # {}
        /\ \A d \in Degrees :
              LET I == AtDegree(raw, d)
                  sum == SumNumerator(raw, I, I)
                  at == AtDegree(terms, d)
              IN /\ (at # {}) <=> (sum # 0)
                 /\ \A i \in at :
                       SignedNumerator(terms[i].coefficient) * DenProduct(raw, I)
                           = sum * terms[i].coefficient.denominator

\* C1 witness: two raw terms of one degree, opposite signs and different
\* denominators, merged into one term with a negative coefficient
C1_Witness ==
    /\ built = "yes" /\ RawFits(raw) /\ Len(raw) = 2 /\ Len(terms) = 1
    /\ raw[1].degree = raw[2].degree
    /\ raw[1].coefficient.positive # raw[2].coefficient.positive
    /\ raw[1].coefficient.denominator # raw[2].coefficient.denominator
    /\ ~terms[1].coefficient.positive

\* C2: every Number roots() returns is an exact root of the polynomial
\* (degrees >= 0, nothing overflowed).
C2_RootsSound ==
    (q_op = "roots" /\ ~IsPanic(q_res) /\ NonNegativeDegrees(terms)) =>
        \A r \in q_res.roots :
            EvaluateLossless(terms, Len(terms), r) => IsExactRoot(terms, r)

\* C2 witness: a root search on a polynomial of degree two that returned two
\* roots, one of them negative, each evaluated without overflow
C2_Witness ==
    /\ q_op = "roots" /\ ~IsPanic(q_res) /\ NonNegativeDegrees(terms)
    /\ Len(terms) = 2 /\ terms[1].degree = 2
    /\ Cardinality(q_res.roots) = 2
    /\ \E r \in q_res.roots : ~r.positive
    /\ \A r \in q_res.roots : EvaluateLossless(terms, Len(terms), r)

\* C3: roots() returns every rational root of a polynomial with degrees >= 0
\* and a term of positive degree (stated for the polynomials that have a
\* constant term, and the roots among the rationals Coefficients).
C3_RootsComplete ==
    (/\ q_op = "roots" /\ ~IsPanic(q_res) /\ NonNegativeDegrees(terms)
     /\ \E i \in 1..Len(terms) : terms[i].degree > 0
     /\ terms[Len(terms)].degree = 0) =>
        \A r \in Coefficients :
            IsExactRoot(terms, r) => \E y \in q_res.roots : SameValue(y, r)

\* C4: evaluate(x) returns the signed value of the sum of coefficient *
\* x^degree, for integer coefficients, degrees >= 0 and an integer point.
C4_EvaluateSigned ==
    (q_op = "evaluate" /\ ~IsPanic(q_res) /\ NonNegativeDegrees(terms)) =>
        q_res.f64 = IntValue(terms, q_x, Len(terms))

\* C5: ==, partial_cmp and cmp compare the signed rational values (stated
\* where the cross products do not overflow).
C5_SignedComparison ==
    (/\ op \in {"eq", "partial_cmp", "cmp"}
     /\ ~CrossOverflows(a, b)
     /\ ~IsPanic(res)) =>
        IF op = "eq" THEN res.bool = SameValue(a, b)
        ELSE res.ord = ValueOrdering(a, b)

\* C6: Number::new with a zero denominator, and a / b with b.numerator = 0,
\* return no value (they fail fast).
C6_ZeroDenominatorRejected ==
    /\ (op = "new" /\ triple.denominator = 0) => IsPanic(res)
    /\ (op = "div" /\ b.numerator = 0) => IsPanic(res)

\* C7: the root search on a polynomial without terms returns no element.
C7_EmptyPolynomialNoRoots ==
    (q_op = "roots" /\ raw = <<>>) => (~IsPanic(q_res) /\ q_res.roots = {})

\* the operation of the harness as the build with overflow checks runs it
CheckedResult ==
    CASE op = "add" -> add(a, b, TRUE)
      [] op = "add_assign" -> add_assign(a, b, TRUE)
      [] op = "mul" -> mul(a, b, TRUE)
      [] op = "mul_u32" -> mul_u32(a, k, TRUE)
      [] op = "div_u32" -> div_u32(a, k, TRUE)
      [] op = "div" -> div(a, b, TRUE)
      [] op = "pow" -> pow(a, k, TRUE)
      [] op = "term_evaluate" -> Term_evaluate(Term_new(b, k), a, TRUE)
      [] OTHER -> res

\* C8: Number::new, +, +=, *, * u32, / u32 (>= 1), / (by a non-zero Number)
\* and pow return a Number in lowest terms with denominator >= 1 (zero as
\* 0/1) when the denominators given are >= 1 and nothing overflows; building
\* a Number again from the result's numerator and denominator changes neither.
C8_LowestTerms ==
    (/\ op \in {"new", "add", "add_assign", "mul", "mul_u32", "div_u32", "div", "pow"}
     /\ op = "new" => triple.denominator >= 1
     /\ op = "div_u32" => k >= 1
     /\ op = "div" => b.numerator # 0
     /\ ~IsPanic(CheckedResult)) =>
        /\ IsNumber(res)
        /\ res.denominator >= 1
        /\ Coprime(res.numerator, res.denominator)
        /\ res.numerator = 0 => res.denominator = 1
        /\ LET again == Number_new(res.numerator, res.denominator, res.positive) IN
           again.numerator = res.numerator /\ again.denominator = res.denominator

\* C8 witness: a sum whose cross-multiplied form 4/4 was reduced to 1/1
C8_Witness ==
    /\ op = "add" /\ IsNumber(res)
    /\ a.denominator = 2 /\ b.denominator = 2 /\ a.positive /\ b.positive
    /\ res.numerator = 1 /\ res.denominator = 1

\* C9: for every degree d <= 0, a.pow(d) is 1/1 with positive sign, and a
\* Term of negative degree evaluates to its own coefficient (stated for a
\* non-zero a and a non-zero coefficient).
C9_NegativeDegreeIsZeroPower ==
    /\ (op = "pow" /\ k <= 0 /\ not_zero(a)) => res = Num(1, 1, TRUE)
    /\ (op = "term_evaluate" /\ k < 0 /\ not_zero(a) /\ not_zero(b)) => res = b

\* C10: a + b and a += b return the exact signed sum whenever the three cross
\* products and the magnitude of the sum's numerator fit in u32.
C10_AddExact ==
    LET S == SignedNumerator(a) * b.denominator + SignedNumerator(b) * a.denominator IN
    (/\ op \in {"add", "add_assign"}
     /\ FitsU32(a.numerator * b.denominator)
     /\ FitsU32(b.numerator * a.denominator)
     /\ FitsU32(a.denominator * b.denominator)
     /\ FitsU32(Abs(S))) =>
        /\ IsNumber(res)
        /\ res.numerator * (a.denominator * b.denominator) = Abs(S) * res.denominator
        /\ S # 0 => (res.positive <=> S > 0)

====
